---- MODULE Spec2Model ----
(***************************************************************************)
(* State-machine model of SocketTransport                                  *)
(* (src/src/internals/station/websockets/SocketTransport.ts).              *)
(*                                                                         *)
(* The transport owns an active socket (_socket), a pending socket         *)
(* (_nextSocket), an outbound queue and a subscription list.  Every        *)
(* WebSocket the transport ever created is an entry of `socks`; the        *)
(* runtime (network, relay, timers, network monitor) drives the socket     *)
(* events.  All handlers run to completion: one action per public          *)
(* operation and per event handler.                                        *)
(***************************************************************************)
EXTENDS Integers, Sequences, FiniteSets

VARIABLES
  phase,          \* "new" before the constructor ran, then "ready" or "failed" (it threw)
  opts,           \* the constructor argument: [url, subscriptions]
  _url,           \* this._url
  _subscriptions, \* this._subscriptions
  listening,      \* TRUE once the "online" listener is registered on the network monitor
  _socket,        \* this._socket: Null or an index of socks
  _nextSocket,    \* this._nextSocket: Null or an index of socks
  _queue,         \* this._queue
  _events,        \* this._events: the registrations of on(), in order
  invoked,        \* the callback invocations of the last step: the callback and its argument
  socks,          \* every WebSocket created so far: readyState and onclose handler
  timers,         \* number of setTimeout(this._socketCreate, 500) callbacks not yet fired
  sent,           \* the socket.send calls of the last step: the socket and the envelope
  txCall,         \* per send()/subscribe() envelope, how often socket.send was called with it
  txAck,          \* per message event, how often socket.send was called with its acknowledge
  calls,          \* number of envelopes built by send()/subscribe() so far
  inbound,        \* number of message events handled so far
  parsed,         \* number of message events whose data JSON.parse accepted
  thrown,         \* the error thrown by the last step, "" when it returned normally
  quiet           \* TRUE from a public close() until the next open/send/subscribe/online

vars == <<phase, opts, _url, _subscriptions, listening, _socket, _nextSocket,
          _queue, _events, invoked, socks, timers, sent, txCall, txAck, calls, inbound, parsed, thrown, quiet>>

(***************************************************************************)
(* Bounds of the model.                                                    *)
(***************************************************************************)
MaxSockets == 4   \* WebSockets created over a run
MaxCalls == 2     \* envelopes accepted from send()/subscribe() over a run
MaxRecv == 1      \* message events delivered over a run
MaxOn == 2        \* callbacks registered with on() over a run
MaxEventSockets == 3  \* sockets created over a run in which callbacks are registered

(***************************************************************************)
(* JavaScript values that reach a typeof / truthiness test.                *)
(***************************************************************************)
Undefined == [t |-> "undefined", v |-> ""]
Str(s) == [t |-> "string", v |-> s]
Num(s) == [t |-> "number", v |-> s]
Bool(s) == [t |-> "boolean", v |-> s]
\* null and the objects that are not envelopes; typeof null is "object"
Obj(s) == [t |-> "object", v |-> s]
JsNull == Obj("null")

TypeOf(x) == x.t

\* the falsy values are undefined, null, "", 0, -0, NaN and false
Truthy(x) ==
  CASE x.t = "undefined" -> FALSE
    [] x.t = "string" -> x.v # ""
    [] x.t = "number" -> x.v \notin {"0", "-0", "NaN"}
    [] x.t = "boolean" -> x.v = "true"
    [] x.t = "object" -> x # JsNull

Null == 0

NoError == ""
UrlError == "Missing or invalid WebSocket url"
TopicError == "Missing or invalid topic field"
\* the TypeError of reading a property of null
NullTypeError == "Cannot read properties of null (reading 'topic')"

\* WebSocket.readyState
CONNECTING == 0
OPEN == 1
CLOSING == 2
CLOSED == 3

(***************************************************************************)
(* Inputs.                                                                 *)
(***************************************************************************)
UrlInputs == {Str("https://relay"), Undefined, Str(""), Num("8080")}

NoSubscriptions == [t |-> "undefined", v |-> <<>>]
Topics(list) == [t |-> "array", v |-> list]
SubscriptionInputs == {NoSubscriptions, Topics(<<"a", "b">>)}

TopicInputs == {Str("a"), Undefined, Str(""), Num("7"), JsNull}
SilentInputs == {Undefined, Num("NaN"), JsNull}
MessageInputs == {"x"}
SubscribeInputs == {Str("c")}

\* opts.subscriptions || []
OptsSubscriptions == IF opts.subscriptions.t = "undefined" THEN <<>> ELSE opts.subscriptions.v

(***************************************************************************)
(* Envelopes (ISocketMessage).  id stands for the identity of the object:  *)
(* the call number for an envelope built by send()/subscribe(), the        *)
(* number of the parsed message for an acknowledge, 0 for a replayed       *)
(* subscription.  topic is a JavaScript value.                             *)
(***************************************************************************)
Envelope(topic, type, payload, silent, id) ==
  [topic |-> topic, type |-> type, payload |-> payload, silent |-> silent, id |-> id]

(***************************************************************************)
(* The transport's mutable fields as one record, threaded through the      *)
(* private methods.                                                        *)
(***************************************************************************)
This ==
  [socket |-> _socket, nextSocket |-> _nextSocket, queue |-> _queue,
   subscriptions |-> _subscriptions, socks |-> socks, sent |-> <<>>,
   events |-> _events, invoked |-> <<>>]

\* how many socket.send calls of the sequence w carried the envelope of kind ack/call with identity k
Count(w, isAck, k) ==
  Cardinality({i \in 1..Len(w) : w[i].msg.id = k /\ (w[i].msg.type = "ack") = isAck})

Commit(t) ==
  /\ _socket' = t.socket
  /\ _nextSocket' = t.nextSocket
  /\ _queue' = t.queue
  /\ _subscriptions' = t.subscriptions
  /\ socks' = t.socks
  /\ sent' = t.sent
  /\ invoked' = t.invoked
  /\ txCall' = [k \in DOMAIN txCall |-> txCall[k] + Count(t.sent, FALSE, k)]
  /\ txAck' = [k \in DOMAIN txAck |-> txAck[k] + Count(t.sent, TRUE, k)]

\* new WebSocket(url) with the four handlers of _socketCreate attached
NewSocket == [readyState |-> CONNECTING, onclose |-> "retry", opened |-> FALSE, closedBy |-> "none"]

\* _socketCreate
SocketCreate(t) ==
  IF t.nextSocket # Null
  THEN t
  ELSE [t EXCEPT !.socks = Append(@, NewSocket),
                 !.nextSocket = Len(t.socks) + 1]

\* WebSocket.close(): a connecting or open socket starts closing
WsClose(rs) == IF rs \in {CONNECTING, OPEN} THEN CLOSING ELSE rs

\* _socketClose; closedBy records whether public close() ever closed the socket
SocketClose(t, who) ==
  IF t.socket # Null
  THEN [t EXCEPT !.socks[t.socket] =
          [@ EXCEPT !.readyState = WsClose(@), !.onclose = "noop",
                    !.closedBy = IF @ = "caller" THEN "caller" ELSE who]]
  ELSE t

\* _setToQueue
SetToQueue(t, m) == [t EXCEPT !.queue = Append(@, m)]

IsOpen(t) == t.socket # Null /\ t.socks[t.socket].readyState = OPEN

\* _socketSend that queues without calling _socketCreate
SocketSendNoCreate(t, m) ==
  IF IsOpen(t)
  THEN [t EXCEPT !.sent = Append(@, [sock |-> t.socket, msg |-> m])]
  ELSE SetToQueue(t, m)

\* _socketSend
SocketSend(t, m) ==
  IF IsOpen(t)
  THEN [t EXCEPT !.sent = Append(@, [sock |-> t.socket, msg |-> m])]
  ELSE SocketCreate(SetToQueue(t, m))

\* _queueSubscriptions that puts the subscriptions at the head of the queue
QueueSubscriptionsFirst(t) ==
  [t EXCEPT !.queue = [i \in 1..Len(t.subscriptions) |->
                         Envelope(Str(t.subscriptions[i]), "sub", "", TRUE, 0)] \o @,
            !.subscriptions = OptsSubscriptions]

\* _queueSubscriptions
QueueSubscriptions(t) ==
  [t EXCEPT !.queue = @ \o [i \in 1..Len(t.subscriptions) |->
                              Envelope(Str(t.subscriptions[i]), "sub", "", TRUE, 0)],
            !.subscriptions = OptsSubscriptions]

\* queue.forEach of _pushQueue: visits the n elements present when it started;
\* queue is this._queue itself, so _setToQueue appends to the array being visited
RECURSIVE ForEachSend(_, _, _)
ForEachSend(t, i, n) ==
  IF i > n THEN t ELSE ForEachSend(SocketSend(t, t.queue[i]), i + 1, n)

\* a drain that leaves the queue as the loop left it
PushQueueKeep(t) == ForEachSend(t, 1, Len(t.queue))

\* _pushQueue
PushQueue(t) == [ForEachSend(t, 1, Len(t.queue)) EXCEPT !.queue = <<>>]

\* _socketOpen
SocketOpen(t) ==
  LET closed == SocketClose(t, "promote")
      promoted == [closed EXCEPT !.socket = closed.nextSocket, !.nextSocket = Null]
  IN PushQueue(QueueSubscriptions(promoted))

\* a readyState getter that falls back on the pending socket
ReadyStateOfPending ==
  IF _socket # Null THEN socks[_socket].readyState
  ELSE IF _nextSocket # Null THEN socks[_nextSocket].readyState ELSE -1

\* the getters readyState, connecting, connected, closing, closed
ReadyState == IF _socket # Null THEN socks[_socket].readyState ELSE -1
Connecting == ReadyState = 0
Connected == ReadyState = 1
Closing == ReadyState = 2
Closed == ReadyState = 3

(***************************************************************************)
(* Initial state: the object before its constructor body runs.             *)
(***************************************************************************)
Init ==
  /\ phase = "new"
  /\ opts \in [url : UrlInputs, subscriptions : SubscriptionInputs]
  /\ _url = ""
  /\ _subscriptions = <<>>
  /\ listening = FALSE
  /\ _socket = Null
  /\ _nextSocket = Null
  /\ _queue = <<>>
  /\ _events = <<>>
  /\ invoked = <<>>
  /\ socks = <<>>
  /\ timers = 0
  /\ sent = <<>>
  /\ txCall = [k \in 1..MaxCalls |-> 0]
  /\ txAck = [k \in 1..MaxRecv |-> 0]
  /\ calls = 0
  /\ inbound = 0
  /\ parsed = 0
  /\ thrown = NoError
  /\ quiet = FALSE

\* the url test of the constructor
ValidUrl(url) == Truthy(url) /\ TypeOf(url) = "string"

\* a constructor that registers the online listener before it tests the url
ConstructListenFirst ==
  /\ phase = "new"
  /\ _subscriptions' = OptsSubscriptions
  /\ listening' = TRUE
  /\ IF ValidUrl(opts.url)
     THEN phase' = "ready" /\ _url' = opts.url.v /\ thrown' = NoError
     ELSE phase' = "failed" /\ _url' = "" /\ thrown' = UrlError
  /\ sent' = <<>>
  /\ invoked' = <<>>
  /\ UNCHANGED <<opts, _events, _socket, _nextSocket, _queue, socks, timers, txCall, txAck,
                 calls, inbound, parsed, quiet>>

\* constructor
Construct ==
  /\ phase = "new"
  /\ _subscriptions' = OptsSubscriptions
  /\ IF ValidUrl(opts.url)
     THEN /\ phase' = "ready"
          /\ _url' = opts.url.v
          /\ listening' = TRUE
          /\ thrown' = NoError
     ELSE /\ phase' = "failed"
          /\ _url' = ""
          /\ listening' = FALSE
          /\ thrown' = UrlError
  /\ sent' = <<>>
  /\ invoked' = <<>>
  /\ UNCHANGED <<opts, _events, _socket, _nextSocket, _queue, socks, timers, txCall, txAck,
                 calls, inbound, parsed, quiet>>

\* a step may create sockets only within the model's budget
Within(t) == Len(t.socks) <= MaxSockets

\* open()
Open ==
  /\ phase = "ready"
  /\ LET t == SocketCreate(This) IN Within(t) /\ Commit(t)
  /\ thrown' = NoError
  /\ quiet' = FALSE
  /\ UNCHANGED <<phase, _events, opts, _url, listening, timers, calls, inbound, parsed>>

\* close()
Close ==
  /\ phase = "ready"
  /\ Commit(SocketClose(This, "caller"))
  /\ thrown' = NoError
  /\ quiet' = TRUE
  /\ UNCHANGED <<phase, _events, opts, _url, listening, timers, calls, inbound, parsed>>

\* a topic test without the typeof check
ValidTopicTruthy(topic) == Truthy(topic)

\* the topic test of send()
ValidTopic(topic) == Truthy(topic) /\ TypeOf(topic) = "string"

\* send(message, topic, silent)
Send(message, topic, silent) ==
  /\ phase = "ready"
  /\ calls < MaxCalls
  /\ IF ValidTopic(topic)
     THEN /\ LET t == SocketSend(This, Envelope(topic, "pub", message, Truthy(silent), calls + 1))
             IN Within(t) /\ Commit(t)
          /\ calls' = calls + 1
          /\ thrown' = NoError
          /\ quiet' = FALSE
     ELSE /\ thrown' = TopicError
          /\ sent' = <<>>
          /\ invoked' = <<>>
          /\ UNCHANGED <<_socket, _nextSocket, _queue, _subscriptions, socks, txCall, txAck, calls, quiet>>
  /\ UNCHANGED <<phase, _events, opts, _url, listening, timers, inbound, parsed>>

\* a subscribe that also records the topic in the list replayed on open
SubscribeRemember(topic) ==
  /\ phase = "ready"
  /\ calls < MaxCalls
  /\ LET t == SocketSend(This, Envelope(topic, "sub", "", TRUE, calls + 1))
     IN Within(t) /\ Commit([t EXCEPT !.subscriptions = Append(@, topic.v)])
  /\ calls' = calls + 1
  /\ thrown' = NoError
  /\ quiet' = FALSE
  /\ UNCHANGED <<phase, _events, opts, _url, listening, timers, inbound, parsed>>

\* subscribe(topic)
Subscribe(topic) ==
  /\ phase = "ready"
  /\ calls < MaxCalls
  /\ LET t == SocketSend(This, Envelope(topic, "sub", "", TRUE, calls + 1))
     IN Within(t) /\ Commit(t)
  /\ calls' = calls + 1
  /\ thrown' = NoError
  /\ quiet' = FALSE
  /\ UNCHANGED <<phase, _events, opts, _url, listening, timers, inbound, parsed>>

\* the network monitor's "online" callback registered by the constructor
Online ==
  /\ listening
  /\ LET t == SocketCreate(This) IN Within(t) /\ Commit(t)
  /\ thrown' = NoError
  /\ quiet' = FALSE
  /\ UNCHANGED <<phase, _events, opts, _url, listening, timers, calls, inbound, parsed>>

\* a timer callback that creates no socket
TimerFireNoCreate ==
  /\ timers > 0
  /\ Commit(This)
  /\ timers' = timers - 1
  /\ thrown' = NoError
  /\ UNCHANGED <<phase, _events, opts, _url, listening, calls, inbound, parsed, quiet>>

\* a setTimeout(this._socketCreate, 500) callback fires
TimerFire ==
  /\ timers > 0
  /\ LET t == SocketCreate(This) IN Within(t) /\ Commit(t)
  /\ timers' = timers - 1
  /\ thrown' = NoError
  /\ UNCHANGED <<phase, _events, opts, _url, listening, calls, inbound, parsed, quiet>>

\* the open event of socket s: s.onopen = () => this._socketOpen()
SocketOpenEvent(s) ==
  /\ socks[s].readyState = CONNECTING
  /\ LET t == SocketOpen([This EXCEPT !.socks[s].readyState = OPEN, !.socks[s].opened = TRUE])
     IN Within(t) /\ Commit(t)
  /\ thrown' = NoError
  /\ UNCHANGED <<phase, _events, opts, _url, listening, timers, calls, inbound, parsed, quiet>>

\* a close event whose handler clears the pending handle and sets no timer
SocketCloseEventNoTimer(s) ==
  /\ socks[s].readyState # CLOSED
  /\ socks' = [socks EXCEPT ![s].readyState = CLOSED]
  /\ _nextSocket' = IF socks[s].onclose = "retry" THEN Null ELSE _nextSocket
  /\ thrown' = NoError
  /\ sent' = <<>>
  /\ invoked' = <<>>
  /\ UNCHANGED <<phase, _events, opts, _url, _subscriptions, listening, _socket, _queue, timers,
                 txCall, txAck, calls, inbound, parsed, quiet>>

\* the close event of socket s: the onclose set by _socketCreate, or the empty
\* one set by _socketClose
SocketCloseEvent(s) ==
  /\ socks[s].readyState # CLOSED
  /\ socks' = [socks EXCEPT ![s].readyState = CLOSED]
  /\ IF socks[s].onclose = "retry"
     THEN /\ _nextSocket' = Null
          /\ timers' = timers + 1
     ELSE UNCHANGED <<_nextSocket, timers>>
  /\ thrown' = NoError
  /\ sent' = <<>>
  /\ invoked' = <<>>
  /\ UNCHANGED <<phase, _events, opts, _url, _subscriptions, listening, _socket, _queue,
                 txCall, txAck, calls, inbound, parsed, quiet>>

\* the data of the message events: JSON texts and texts that are not JSON
RawPub == "{\"topic\":\"a\",\"type\":\"pub\",\"payload\":\"p\",\"silent\":false}"
RawSilent == "{\"topic\":\"a\",\"type\":\"pub\",\"payload\":\"\",\"silent\":true}"
RawOtherTopic == "{\"topic\":\"b\",\"type\":\"pub\",\"payload\":\"p\",\"silent\":false}"
RawEmptyObject == "{}"
RawNumber == "5"
RawNull == "null"
RawGarbage == "not json"
RawEmpty == ""
RawTruncated == "{\"topic\":"
DataInputs ==
  {RawPub, RawSilent, RawOtherTopic, RawEmptyObject, RawNumber, RawNull,
   RawGarbage, RawEmpty, RawTruncated}

\* JSON.parse(event.data) inside the try of _socketReceive, for the texts of
\* DataInputs: ok is FALSE where JSON.parse throws its SyntaxError
JSONParse(data) ==
  CASE data = RawPub -> [ok |-> TRUE, value |-> [topic |-> Str("a"), type |-> "pub", payload |-> "p", silent |-> FALSE]]
    [] data = RawSilent -> [ok |-> TRUE, value |-> [topic |-> Str("a"), type |-> "pub", payload |-> "", silent |-> TRUE]]
    [] data = RawOtherTopic -> [ok |-> TRUE, value |-> [topic |-> Str("b"), type |-> "pub", payload |-> "p", silent |-> FALSE]]
    [] data = RawEmptyObject -> [ok |-> TRUE, value |-> Obj("{}")]
    [] data = RawNumber -> [ok |-> TRUE, value |-> Num("5")]
    [] data = RawNull -> [ok |-> TRUE, value |-> JsNull]
    [] data \in {RawGarbage, RawEmpty, RawTruncated} -> [ok |-> FALSE]

\* socketMessage.topic: undefined where the value has no such property
TopicOf(value) == IF "topic" \in DOMAIN value THEN value.topic ELSE Undefined

\* the error _socketReceive ends with: reading .topic of null throws, and
\* the promise of the async handler is rejected
ReceiveError(data) ==
  IF JSONParse(data).ok /\ JSONParse(data).value = JsNull THEN NullTypeError ELSE NoError

\* every registration, whatever its event name
ListenersAll(t, event) == t.events

\* this._events.filter((event) => event.event === ...)
Listeners(t, event) == SelectSeq(t.events, LAMBDA r : r.event = event)

\* events.forEach((event) => event.callback(arg)): a callback is the caller's
\* code, of which the model keeps the invocation and its argument
CallEach(t, events, arg) ==
  [t EXCEPT !.invoked = @ \o [i \in 1..Len(events) |-> [callback |-> events[i].callback, arg |-> arg]]]

\* a receive that acknowledges what it could not parse
SocketReceiveAckAlways(t, data, n) ==
  LET socketMessage == JSONParse(data)
  IN IF ~socketMessage.ok
     THEN SocketSend(t, Envelope(Undefined, "ack", "", TRUE, n))
     ELSE IF socketMessage.value = JsNull
     THEN t
     ELSE LET u == SocketSend(t, Envelope(TopicOf(socketMessage.value), "ack", "", TRUE, n))
          IN IF IsOpen(u) THEN CallEach(u, Listeners(u, "message"), socketMessage.value) ELSE u

\* _socketReceive: parse, acknowledge, then call the "message" callbacks; a
\* text that parses to null ends the handler at the read of its topic
SocketReceive(t, data, n) ==
  LET socketMessage == JSONParse(data)
  IN IF ~socketMessage.ok
     THEN t
     ELSE IF socketMessage.value = JsNull
     THEN t
     ELSE LET u == SocketSend(t, Envelope(TopicOf(socketMessage.value), "ack", "", TRUE, n))
          IN IF IsOpen(u) THEN CallEach(u, Listeners(u, "message"), socketMessage.value) ELSE u

\* a message event of socket s: s.onmessage = (event) => this._socketReceive(event)
SocketMessageEvent(s, data) ==
  /\ socks[s].readyState \in {OPEN, CLOSING}
  /\ inbound < MaxRecv
  /\ LET t == SocketReceive(This, data, parsed + 1) IN Within(t) /\ Commit(t)
  /\ inbound' = inbound + 1
  /\ parsed' = IF JSONParse(data).ok THEN parsed + 1 ELSE parsed
  /\ thrown' = ReceiveError(data)
  /\ UNCHANGED <<phase, _events, opts, _url, listening, timers, calls, quiet>>

\* the event names on() is called with
EventInputs == {"message", "error"}

\* the error event the socket hands to onerror
ErrorEvent(s) == [type |-> "error", target |-> s]

\* on(event, callback)
On(event, callback) ==
  /\ phase = "ready"
  /\ Len(_events) < MaxOn
  /\ _events' = Append(_events, [event |-> event, callback |-> callback])
  /\ thrown' = NoError
  /\ sent' = <<>>
  /\ invoked' = <<>>
  /\ UNCHANGED <<phase, opts, _url, _subscriptions, listening, _socket, _nextSocket, _queue, socks,
                 timers, txCall, txAck, calls, inbound, parsed, quiet>>

\* _socketError
SocketError(t, e) == CallEach(t, Listeners(t, "error"), e)

\* an error event of socket s: s.onerror = (e) => this._socketError(e)
SocketErrorEvent(s) ==
  /\ socks[s].readyState # CLOSED
  /\ Commit(SocketError(This, ErrorEvent(s)))
  /\ thrown' = NoError
  /\ UNCHANGED <<phase, _events, opts, _url, listening, timers, calls, inbound, parsed, quiet>>

Next ==
  \/ Construct
  \/ Open
  \/ Close
  \/ \E m \in MessageInputs, topic \in TopicInputs, silent \in SilentInputs :
       Send(m, topic, silent)
  \/ \E topic \in SubscribeInputs : Subscribe(topic)
  \/ Online
  \/ TimerFire
  \/ \E s \in 1..Len(socks) : SocketOpenEvent(s)
  \/ \E s \in 1..Len(socks) : SocketCloseEvent(s)
  \/ \E s \in 1..Len(socks), data \in DataInputs : SocketMessageEvent(s, data)

Spec == Init /\ [][Next]_vars

\* the retry timer is a timer of the event loop: once set it fires
FairSpec == Spec /\ WF_vars(TimerFire)

\* the transport together with the callbacks of on() and the error events of
\* its sockets, for runs of at most MaxEventSockets sockets
Fits == Len(socks') <= MaxEventSockets

NextEvents ==
  \/ Construct
  \/ Open /\ Fits
  \/ Close
  \/ \E m \in MessageInputs, topic \in TopicInputs, silent \in SilentInputs :
       Send(m, topic, silent) /\ Fits
  \/ \E topic \in SubscribeInputs : Subscribe(topic) /\ Fits
  \/ Online /\ Fits
  \/ TimerFire /\ Fits
  \/ \E s \in 1..Len(socks) : SocketOpenEvent(s) /\ Fits
  \/ \E s \in 1..Len(socks) : SocketCloseEvent(s)
  \/ \E s \in 1..Len(socks), data \in DataInputs : SocketMessageEvent(s, data) /\ Fits
  \/ \E event \in EventInputs : On(event, Len(_events) + 1)
  \/ \E s \in 1..Len(socks) : SocketErrorEvent(s)

EventSpec == Init /\ [][NextEvents]_vars

(***************************************************************************)
(* Vocabulary of the properties.                                           *)
(***************************************************************************)
\* the envelopes of a sequence of socket.send calls
Msgs(w) == [i \in 1..Len(w) |-> w[i].msg]

\* built by send() or subscribe()
IsCaller(m) == m.id > 0 /\ m.type # "ack"
\* built by _queueSubscriptions
IsReplay(m) == m.id = 0 /\ m.type = "sub"

CallerOnly(q) == SelectSeq(q, IsCaller)
ReplayOnly(q) == SelectSeq(q, IsReplay)

\* the subscribe envelopes of the configured list
ConfiguredSubs ==
  [i \in 1..Len(OptsSubscriptions) |-> Envelope(Str(OptsSubscriptions[i]), "sub", "", TRUE, 0)]

\* this step handles the open event of socket s
OpenStepOf(s) == ~socks[s].opened /\ socks'[s].opened
OpenStep == \E s \in 1..Len(socks) : OpenStepOf(s)

\* this step handles the close event of socket s
CloseStepOf(s) == socks[s].readyState # CLOSED /\ socks'[s].readyState = CLOSED

\* how many entries of the queue are the acknowledge of parsed message n
QueuedAcks(n) ==
  Cardinality({i \in 1..Len(_queue) : _queue[i].type = "ack" /\ _queue[i].id = n})

(***************************************************************************)
(* C1.  The envelopes that send()/subscribe() queued while the active      *)
(* connection was not open are all transmitted, in call order, by the      *)
(* handler of the next open event.                                         *)
(***************************************************************************)
C1_OpenTransmitsQueued ==
  [][OpenStep => CallerOnly(Msgs(sent')) = CallerOnly(_queue)]_vars

(***************************************************************************)
(* C2.  The acknowledge of every parsed inbound message is accounted for   *)
(* exactly once: it was handed to socket.send once, or it is still in the  *)
(* queue, never neither and never twice.                                   *)
(***************************************************************************)
C2_AckExactlyOnce ==
  \A n \in 1..parsed : txAck[n] + QueuedAcks(n) = 1

(***************************************************************************)
(* C4.  The handler of every open event transmits exactly the subscribe    *)
(* envelopes of the configured list, in configured order.                  *)
(***************************************************************************)
C4_OpenReplaysConfigured ==
  [][OpenStep => ReplayOnly(Msgs(sent')) = ConfiguredSubs]_vars

(***************************************************************************)
(* C5.  From a public close() until the caller calls open(), send() or     *)
(* subscribe() or the monitor signals online, no step creates a socket or  *)
(* sets a retry timer.                                                     *)
(***************************************************************************)
C5_CloseStopsRetry ==
  [][quiet /\ quiet' => Len(socks') = Len(socks) /\ timers' <= timers]_vars

(***************************************************************************)
(* C3.  When the close event of the active or pending socket fires and the *)
(* caller did not close that socket, the handler clears the pending handle *)
(* and sets a retry timer; and whenever a retry timer is set and no        *)
(* attempt is pending, a new socket is eventually created (while the model *)
(* has sockets left), after any number of such closures.                   *)
(***************************************************************************)
ForcedClose(s) == s \in {_socket, _nextSocket} /\ socks[s].closedBy # "caller"

C3_ForcedCloseRetries ==
  /\ [][\A s \in 1..Len(socks) :
         CloseStepOf(s) /\ ForcedClose(s) => timers' = timers + 1 /\ _nextSocket' = Null]_vars
  /\ \A k \in 0..(MaxSockets - 1) :
       (timers > 0 /\ _nextSocket = Null /\ Len(socks) = k) ~> (Len(socks) > k)

\* three forced disconnects in a row, each followed by a new attempt
C3_Witness ==
  /\ Len(socks) = 4
  /\ \A s \in 1..3 : socks[s].readyState = CLOSED /\ socks[s].closedBy = "none"
  /\ _nextSocket = 4
  /\ ~quiet

(***************************************************************************)
(* C6 as stated.  In the socket.send calls of one handler, no envelope     *)
(* built by send()/subscribe() comes before a replayed subscribe envelope. *)
(***************************************************************************)
C6_SubsBeforeCallerEnvelopes ==
  \A i, j \in 1..Len(sent) : i < j => ~(IsCaller(sent[i].msg) /\ IsReplay(sent[j].msg))

(***************************************************************************)
(* C6 amended.  The handler of an open event sends, on the socket it made  *)
(* active, the queue as it was before the event followed by the subscribe  *)
(* envelopes of the subscription list, or it sends nothing.                *)
(***************************************************************************)
C6_DrainOrder ==
  [][OpenStep =>
       \/ sent' = <<>>
       \/ /\ Msgs(sent') = _queue \o ConfiguredSubs
          /\ \A i \in 1..Len(sent') : sent'[i].sock = _socket']_vars

\* an open event sent a queued caller envelope and then the subscriptions
C6_Witness ==
  \E i, j \in 1..Len(sent) : i < j /\ IsCaller(sent[i].msg) /\ IsReplay(sent[j].msg)

(***************************************************************************)
(* C7.  No publish envelope with a missing, empty or non-string topic is   *)
(* ever queued or sent, and a step in which send() throws the topic error  *)
(* changes neither the queue, the handles, the sockets nor the timers and  *)
(* sends nothing.                                                          *)
(***************************************************************************)
GoodTopic(m) == m.topic.t = "string" /\ m.topic.v # ""

C7_InvalidTopicRejected ==
  /\ [](/\ \A i \in 1..Len(_queue) : _queue[i].type = "pub" => GoodTopic(_queue[i])
        /\ \A i \in 1..Len(sent) : sent[i].msg.type = "pub" => GoodTopic(sent[i].msg))
  /\ [][thrown' = TopicError =>
          /\ UNCHANGED <<_queue, _socket, _nextSocket, socks, timers, txCall, txAck, calls>>
          /\ sent' = <<>>]_vars

\* send() threw while an envelope was queued and an attempt was pending
C7_Witness == thrown = TopicError /\ _queue # <<>> /\ _nextSocket # Null

(***************************************************************************)
(* C8.  readyState is -1 while no socket was ever created and whenever the *)
(* active handle is null; connected implies the active handle refers to a  *)
(* socket whose open event fired and that is open; and connected becomes   *)
(* true only in the step that handles the open event of the socket that    *)
(* is active after it.                                                     *)
(***************************************************************************)
C8_ReadyState ==
  /\ [](/\ Len(socks) = 0 => ReadyState = -1
        /\ _socket = Null => ReadyState = -1
        /\ Connected => /\ _socket \in 1..Len(socks)
                        /\ socks[_socket].opened
                        /\ socks[_socket].readyState = OPEN)
  /\ [][~Connected /\ Connected' => _socket' \in 1..Len(socks) /\ OpenStepOf(_socket')]_vars

\* connected on the second socket the transport created
C8_Witness == Connected /\ _socket = 2

(***************************************************************************)
(* C9.  A step in which send() or subscribe() builds an envelope: with the *)
(* active socket open it is one socket.send of that envelope on the active *)
(* socket, queue and pending handle unchanged; otherwise nothing is sent,  *)
(* the envelope is appended to the queue and a pending socket exists       *)
(* afterwards, created by this step if there was none.                     *)
(***************************************************************************)
C9_TransmitOrQueue ==
  [][calls' = calls + 1 =>
       IF Connected
       THEN /\ Len(sent') = 1
            /\ sent'[1].sock = _socket
            /\ sent'[1].msg.id = calls' /\ IsCaller(sent'[1].msg)
            /\ UNCHANGED <<_queue, _socket, _nextSocket, socks>>
       ELSE /\ sent' = <<>>
            /\ Len(_queue') = Len(_queue) + 1
            /\ SubSeq(_queue', 1, Len(_queue)) = _queue
            /\ _queue'[Len(_queue')].id = calls' /\ IsCaller(_queue'[Len(_queue')])
            /\ _socket' = _socket
            /\ IF _nextSocket # Null
               THEN UNCHANGED <<_nextSocket, socks>>
               ELSE /\ socks' = Append(socks, NewSocket)
                    /\ _nextSocket' = Len(socks')]_vars

\* a call queued its envelope and created the pending socket while another was queued
C9_Witness ==
  /\ calls = 2 /\ sent = <<>> /\ Len(_queue) = 2
  /\ _queue[2].id = 2
  /\ txCall[1] = 0

(***************************************************************************)
(* C10.  A constructor given a missing or non-string url throws: the       *)
(* object stays unusable, no online listener is registered, no socket is   *)
(* ever created and no step is possible; with a valid url the constructor  *)
(* returns with null handles, an empty queue and no socket.                *)
(***************************************************************************)
C10_Constructor ==
  /\ [](phase # "new" => (phase = "failed" <=> ~(opts.url.t = "string" /\ opts.url.v # "")))
  /\ [](phase = "failed" =>
          /\ thrown = UrlError
          /\ ~listening
          /\ Len(socks) = 0 /\ timers = 0
          /\ ~ENABLED Next)
  /\ [][phase = "new" /\ phase' = "ready" =>
          /\ listening'
          /\ _socket' = Null /\ _nextSocket' = Null
          /\ _queue' = <<>> /\ socks' = <<>> /\ timers' = 0]_vars

\* the constructor threw on a url that is not a string
C10_Witness == phase = "failed" /\ opts.url.t = "number"

\* the registrations of on() under one event name, in registration order
RegisteredFor(event) == SelectSeq(_events, LAMBDA r : r.event = event)

\* one invocation with argument arg of each of the registrations regs, in order
Calls(regs, arg) == [i \in 1..Len(regs) |-> [callback |-> regs[i].callback, arg |-> arg]]

(***************************************************************************)
(* C11.  Inbound data that does not parse is discarded in silence: the     *)
(* step that handles it hands nothing to socket.send, queues nothing,      *)
(* calls no callback, raises no error and leaves the handles, the queue,   *)
(* the sockets and the timers as they were.                                *)
(***************************************************************************)
C11_UnparseableDiscarded ==
  [][inbound' = inbound + 1 /\ parsed' = parsed =>
       /\ sent' = <<>>
       /\ invoked' = <<>>
       /\ thrown' = NoError
       /\ UNCHANGED <<_socket, _nextSocket, _queue, socks, timers, txCall, txAck,
                      _events, _subscriptions>>]_vars

\* unparseable data was handled while the active socket was open and a
\* "message" and an "error" callback were registered
C11_Witness ==
  /\ inbound = 1 /\ parsed = 0
  /\ Connected
  /\ Len(_events) = 2 /\ _events[1].event # _events[2].event

(***************************************************************************)
(* C12.  The step that handles a parsed inbound envelope calls, when the   *)
(* active socket is open, each callback registered for "message" once, in  *)
(* registration order, with that envelope, and no callback registered for  *)
(* another event; when the active socket is absent or not open it calls    *)
(* no callback.                                                            *)
(***************************************************************************)
C12_MessageDispatch ==
  [][parsed' = parsed + 1 =>
       \E data \in DataInputs :
         /\ JSONParse(data).ok
         /\ invoked' = IF Connected
                       THEN Calls(RegisteredFor("message"), JSONParse(data).value)
                       ELSE <<>>]_vars

(***************************************************************************)
(* C13.  The step that handles the error event of a socket calls each      *)
(* callback registered for "error", in registration order, with the event, *)
(* whatever the state of the connection, and changes nothing else: the     *)
(* handles, the queue, the sockets and the timers stay as they were.       *)
(***************************************************************************)
C13_ErrorDispatch ==
  [][\A s \in 1..Len(socks) :
       (invoked' # <<>> /\ invoked'[1].arg = ErrorEvent(s)) =>
         /\ invoked' = Calls(RegisteredFor("error"), ErrorEvent(s))
         /\ sent' = <<>>
         /\ thrown' = NoError
         /\ UNCHANGED <<_socket, _nextSocket, _queue, socks, timers, txCall, txAck,
                        _events, _subscriptions>>]_vars

\* an error event was dispatched to two "error" callbacks, first registered
\* first, while no socket was active
C13_Witness ==
  /\ Len(invoked) = 2
  /\ \E s \in 1..Len(socks) : invoked[1].arg = ErrorEvent(s)
  /\ invoked[1].callback = 1 /\ invoked[2].callback = 2
  /\ _socket = Null

\* the attempts in flight: created, not opened, not closed
Pending == {s \in 1..Len(socks) : socks[s].readyState = CONNECTING}

(***************************************************************************)
(* C14.  At most one connection attempt is in flight at any time, and no   *)
(* step creates a socket while an attempt is in flight: open() during an   *)
(* attempt changes nothing.                                                *)
(***************************************************************************)
C14_OnePendingAttempt ==
  /\ [](Cardinality(Pending) <= 1)
  /\ [][Pending # {} => Len(socks') = Len(socks)]_vars

(***************************************************************************)
(* C15.  After the step that handles the open event of socket s, the       *)
(* active socket is s, no socket is pending, and the socket that was       *)
(* active before is closing or closed with its close handler silenced.     *)
(***************************************************************************)
C15_OpenPromotesOpened ==
  [][\A s \in 1..Len(socks) :
       OpenStepOf(s) =>
         /\ _socket' = s
         /\ _nextSocket' = Null
         /\ (_socket # Null /\ _socket # s) =>
              /\ socks'[_socket].readyState \in {CLOSING, CLOSED}
              /\ socks'[_socket].onclose = "noop"]_vars

(***************************************************************************)
(* C16.  The drain of an open event conserves envelopes: each envelope in  *)
(* the queue when the event is handled is, after the step, handed to       *)
(* socket.send on the active socket or still in the queue.                 *)
(***************************************************************************)
C16_DrainConserves ==
  [][OpenStep =>
       \A i \in 1..Len(_queue) :
         \/ \E j \in 1..Len(sent') : sent'[j].msg = _queue[i] /\ sent'[j].sock = _socket'
         \/ \E j \in 1..Len(_queue') : _queue'[j] = _queue[i]]_vars

(***************************************************************************)
(* C17.  The envelope of each send() or subscribe() call is handed to      *)
(* socket.send at most once over the life of the transport.                *)
(***************************************************************************)
C17_AtMostOnce == \A k \in DOMAIN txCall : txCall[k] <= 1

\* two envelopes queued while disconnected were transmitted, once each, by an
\* open event that followed a reconnection
C17_Witness ==
  /\ txCall[1] = 1 /\ txCall[2] = 1
  /\ Len(CallerOnly(Msgs(sent))) = 2
  /\ Cardinality({s \in 1..Len(socks) : socks[s].opened}) >= 2

(***************************************************************************)
(* C18.  Between events, whenever the outbound queue is not empty a socket *)
(* is pending or a retry timer is set.                                     *)
(***************************************************************************)
C18_QueueHasAttempt == _queue # <<>> => (_nextSocket # Null \/ timers > 0)

\* an envelope waits in the queue for the retry timer alone: the pending
\* socket it created has closed
C18_Witness == _queue # <<>> /\ _nextSocket = Null /\ timers > 0

(***************************************************************************)
(* C19.  The active handle refers only to a socket whose own open event    *)
(* was handled: once an open event was handled it is never absent, it is   *)
(* never a connecting socket, and the connecting getter is false.          *)
(***************************************************************************)
C19_ActiveWasOpened ==
  /\ ~Connecting
  /\ _socket # Null => socks[_socket].opened
  /\ (\E s \in 1..Len(socks) : socks[s].opened) => _socket # Null

(***************************************************************************)
(* C20.  subscribe(topic) leaves the subscription list as it is: after     *)
(* construction the list is the configured one, and the subscribes an open *)
(* event puts on the wire besides the caller's envelopes are those of the  *)
(* configured list, or none; the envelope of a subscribe() call is handed  *)
(* to socket.send at most once.                                            *)
(***************************************************************************)
C20_SubscribeKeepsList ==
  /\ [][calls' = calls + 1 => _subscriptions' = _subscriptions]_vars
  /\ [](phase = "ready" => _subscriptions = OptsSubscriptions)
  /\ [](ReplayOnly(Msgs(sent)) \in {<<>>, ConfiguredSubs})
  /\ [](\A i \in 1..Len(sent) :
          (IsCaller(sent[i].msg) /\ sent[i].msg.type = "sub") => txCall[sent[i].msg.id] = 1)

\* an open event transmitted the envelope of an earlier subscribe("c") and
\* then the subscribes of the two configured topics, and no other subscribe
C20_Witness ==
  /\ Len(OptsSubscriptions) = 2
  /\ \E i \in 1..Len(sent) :
       /\ IsCaller(sent[i].msg) /\ sent[i].msg.type = "sub" /\ sent[i].msg.topic = Str("c")
       /\ \A j \in 1..Len(sent) : IsReplay(sent[j].msg) => i < j
  /\ ReplayOnly(Msgs(sent)) = ConfiguredSubs

====
